---- MODULE Spec2Model ----
(***************************************************************************)
(* The conversation workflow of WorkflowManager (src/workflow_manager.py): *)
(* the step graph built by _define_nodes/_add_edges, the steps _login,     *)
(* _onboarding, _call_model and the tool step, the two routers, and the    *)
(* profile store the login step and the tools of ToolManager read and      *)
(* write (src/tool_manager.py).                                            *)
(***************************************************************************)
EXTENDS Integers, Sequences, FiniteSets, TLC

\* ---------------------------------------------------------------- bounds
\* longest stored conversation explored
MaxMsgs == 6
\* most tool calls one assistant message carries
MaxCalls == 1
\* most rejected logins explored in one turn
MaxLoginTries == 2
\* most records in the profile store the program starts with
MaxStore == 1
\* the characters of one block of message text (a long typed input or reply)
BlockChars == 2000
\* longest message sequence handed to the trimmer on its own
MaxHist == 4
\* the largest token budget tried, in one-block messages
MaxBudgetMsgs == 3
\* most inputs the run loop reads while it is running
MaxReads == 2
\* most searches and retrieval tool calls on one RAGManager
MaxSearches == 2
\* most add_documents calls counted
MaxAdds == 2

\* WorkflowManager(max_tokens=2000)
DefaultMaxTokens == 2000

\* ------------------------------------------------------------ vocabulary
START == "__start__"
END == "__end__"
\* no turn has been started yet on this WorkflowManager
IDLE == "idle"
\* the turn was aborted by an exception raised inside a step
RAISED == "raised"

Names == {"Ann", "Bo"}
Usernames == {"admin", "bob"}
Passwords == {"password", "wrong"}
Roles == {"dev"}
Departments == {"eng"}
Queries == {"q"}

\* the file data/employee_db.json: absent, empty, not JSON, or a JSON object
\* (an insertion-ordered sequence of <<employee name, record>> entries)
MISSING == [kind |-> "missing", data |-> <<>>]
EMPTYFILE == [kind |-> "empty", data |-> <<>>]
MALFORMED == [kind |-> "malformed", data |-> <<>>]
Json(d) == [kind |-> "json", data |-> d]

\* Python's None, and a value that is not None
None == {}
Some(x) == {x}
The(o) == CHOOSE x \in o : TRUE

NoId == <<0, 0>>

\* ---------------------------------------------------------------- state
VARIABLES
    tools,              \* Agent._tools: the names of the agent's tools
    handle_tool_errors, \* whether the tool step turns a tool's exception into a result
    compiled,           \* WorkflowManager._compiled_workflow is set
    is_logged_in,       \* WorkflowManager._is_logged_in
    is_new_user,        \* WorkflowManager._is_new_user
    user,               \* WorkflowManager._user
    messages,           \* the stored conversation of the thread (checkpoint)
    node,               \* the step that runs next in the turn; IDLE, END, RAISED between turns
    trace,              \* the steps run so far in the current turn
    turn_start,         \* the session flags and the store as the current turn found them
    console,            \* what the step that ran last read from the console
    employee_db,        \* the content of data/employee_db.json
    max_tokens,         \* WorkflowManager._max_tokens
    prompt,             \* the prompt the last model step sent since the turn began
                        \* or the memory was cleared
    owner,              \* the front end that builds the agent: "App" or "Controller"
    app_tools,          \* App._tools / Controller._tools: the tools argument, or None
    agent,              \* App._agent / Controller._agent: None, or the agent's tools
    is_running,         \* App._is_running
    run_thread,         \* App._run_thread: "new", "alive" or "done"
    worker,             \* where the worker thread is in _run_app
    user_input,         \* the input the run loop read last
    streamed,           \* the inputs a response was streamed for, in order
    reads,              \* how many inputs the run loop has read
    stopped,            \* quit() was called since run()
    quit_at,            \* reads and worker when quit() was first called from outside
    sources,            \* the markdown files under rag_directory and the extra files
    documents,          \* RAGManager._documents
    split_documents,    \* RAGManager._split_documents
    document_ids,       \* RAGManager._document_ids
    vector_store,       \* the chunks held by the vector store
    add_calls,          \* how many times add_documents was called
    retrieved           \* what the last search or retrieve_context call returned

wf_vars == <<tools, handle_tool_errors, compiled, is_logged_in, is_new_user, user,
             messages, node, trace, turn_start, console, employee_db, max_tokens, prompt>>

app_vars == <<owner, app_tools, agent, is_running, run_thread, worker, user_input,
              streamed, reads, stopped, quit_at>>

rag_vars == <<sources, documents, split_documents, document_ids, vector_store, add_calls,
              retrieved>>

vars == <<wf_vars, app_vars, rag_vars>>

\* no App or Controller is in play
AppIdle ==
    /\ owner = "App"
    /\ app_tools = None
    /\ agent = None
    /\ is_running = FALSE
    /\ run_thread = "new"
    /\ worker = "new"
    /\ user_input = ""
    /\ streamed = <<>>
    /\ reads = 0
    /\ stopped = FALSE
    /\ quit_at = None

\* no RAGManager is in play
RagIdle ==
    /\ sources = [dir |-> None, extra_files |-> <<>>, existing |-> {}]
    /\ documents = None
    /\ split_documents = None
    /\ document_ids = None
    /\ vector_store = <<>>
    /\ add_calls = 0
    /\ retrieved = <<>>

\* ------------------------------------------------------------- messages
HumanMessage(c) ==
    [type |-> "human", content |-> c, tool_calls |-> <<>>, tool_call_id |-> NoId]

AIMessage(calls) ==
    [type |-> "ai", content |-> <<"reply">>, tool_calls |-> calls, tool_call_id |-> NoId]

SystemMessage(c) ==
    [type |-> "system", content |-> c, tool_calls |-> <<>>, tool_call_id |-> NoId]

ToolMessage(c, id) ==
    [type |-> "tool", content |-> c, tool_calls |-> <<>>, tool_call_id |-> id]

User(username, name, role, department) ==
    [username |-> username, name |-> name, role |-> role, department |-> department]

Last(s) == s[Len(s)]

\* a state whose messages a step's return value replaces
add_messages_overwrite(left, right) == right

\* the MessagesState reducer: what a step returns is appended to the stored messages
add_messages(left, right) == left \o right

\* ------------------------------------------------- trimming and the prompt
\* count_tokens_approximately: four characters a token, rounded up, and three
\* tokens more for each message; a tool call counts as one block of text
MessageChars(m) == BlockChars * (Len(m.content) + Len(m.tool_calls))

MessageTokens(m) == (MessageChars(m) + 3) \div 4 + 3

RECURSIVE count_tokens_approximately(_)
count_tokens_approximately(msgs) ==
    IF msgs = <<>> THEN 0
    ELSE MessageTokens(msgs[1]) + count_tokens_approximately(Tail(msgs))

\* the last k messages
Suffix(msgs, k) == SubSeq(msgs, Len(msgs) - k + 1, Len(msgs))

\* a fit that stops one token short of the budget
FitLast_below_budget(msgs, budget) ==
    CHOOSE k \in 0..Len(msgs) :
        /\ (k = 0 \/ count_tokens_approximately(Suffix(msgs, k)) < budget)
        /\ \A j \in (k + 1)..Len(msgs) :
               count_tokens_approximately(Suffix(msgs, j)) >= budget

\* strategy="last", allow_partial=False: the most whole messages, counted from
\* the end, that fit the budget
FitLast(msgs, budget) ==
    CHOOSE k \in 0..Len(msgs) :
        /\ count_tokens_approximately(Suffix(msgs, k)) <= budget
        /\ \A j \in (k + 1)..Len(msgs) :
               count_tokens_approximately(Suffix(msgs, j)) > budget

\* a trimmer without start_on
StartOnHuman_unset(msgs, k) == k

\* start_on="human": messages are dropped from the front of the kept ones until
\* the first is a human message
StartOnHuman(msgs, k) ==
    IF \E j \in 1..k : msgs[Len(msgs) - j + 1].type = "human"
    THEN CHOOSE j \in 1..k :
             /\ msgs[Len(msgs) - j + 1].type = "human"
             /\ \A i \in (j + 1)..k : msgs[Len(msgs) - i + 1].type # "human"
    ELSE 0

\* trim_messages(strategy="last", include_system=True, allow_partial=False,
\* start_on="human"): a leading system message is kept and paid for first
last_max_tokens(msgs, budget) == Suffix(msgs, StartOnHuman(msgs, FitLast(msgs, budget)))

Max0(n) == IF n < 0 THEN 0 ELSE n

trimmer(msgs, budget) ==
    IF msgs # <<>> /\ msgs[1].type = "system"
    THEN <<msgs[1]>> \o last_max_tokens(Tail(msgs),
                                        Max0(budget - MessageTokens(msgs[1])))
    ELSE last_max_tokens(msgs, budget)

\* a prompt template of the messages placeholder alone
prompt_template_messages_only(msgs) == msgs

\* [("system", system_prompt), MessagesPlaceholder("messages")]
prompt_template(msgs) == <<SystemMessage(<<"system_prompt">>)>> \o msgs

\* ------------------------------------------------- the profile store file
Records == [username : Usernames, role : Roles, department : Departments]

RECURSIVE DistinctKeys(_)
DistinctKeys(d) ==
    IF d = <<>> THEN TRUE
    ELSE /\ \A i \in 2..Len(d) : d[i][1] # d[1][1]
         /\ DistinctKeys(Tail(d))

\* the JSON objects the file can hold when the program starts
Stores ==
    UNION {{d \in [1..n -> Names \X Records] : DistinctKeys(d)} : n \in 0..MaxStore}

Files == {MISSING, EMPTYFILE, MALFORMED} \cup {Json(d) : d \in Stores}

HasKey(d, k) == \E i \in 1..Len(d) : d[i][1] = k

\* dict.get(k): the value stored under k, or None
DictGet(d, k) ==
    IF HasKey(d, k) THEN Some(d[CHOOSE i \in 1..Len(d) : d[i][1] = k][2]) ELSE None

\* a write that keeps nothing but the new entry
DictSet_only_new(d, k, v) == <<<<k, v>>>>

\* d[k] = v: an existing key keeps its place, a new key goes last
DictSet(d, k, v) ==
    IF HasKey(d, k)
    THEN [i \in 1..Len(d) |-> IF d[i][1] = k THEN <<k, v>> ELSE d[i]]
    ELSE Append(d, <<k, v>>)

\* ------------------------------------------------------------ the tools
RetrieveContext == "retrieve_context"
EmployeeLookup == "employee_lookup"
CreateEmployeeProfile == "create_employee_profile"

\* the outcome of one tool run: it raised or returned content, and the file after it
Returned(c, db) == [raised |-> FALSE, content |-> c, db |-> db]
Raised(e, db) == [raised |-> TRUE, content |-> e, db |-> db]

retrieve_context(db, query) == Returned(<<"context", query>>, db)

\* a lookup that searches the usernames of the records instead of the keys
employee_lookup_by_username(db, employee_name) ==
    IF db = MISSING THEN Raised("FileNotFoundError", db)
    ELSE IF db \in {EMPTYFILE, MALFORMED} THEN Raised("JSONDecodeError", db)
    ELSE IF \E i \in 1..Len(db.data) : db.data[i][2].username = employee_name
         THEN LET info == db.data[CHOOSE i \in 1..Len(db.data) :
                                      db.data[i][2].username = employee_name][2]
              IN Returned(<<employee_name, "is a", info.username, info.role,
                            info.department>>, db)
         ELSE Returned(<<"No information found for employee", employee_name>>, db)

employee_lookup(db, employee_name) ==
    IF db = MISSING THEN Raised("FileNotFoundError", db)
    ELSE IF db \in {EMPTYFILE, MALFORMED} THEN Raised("JSONDecodeError", db)
    ELSE LET info == DictGet(db.data, employee_name)
         IN IF info # None
            THEN Returned(<<employee_name, "is a", The(info).username, The(info).role,
                            The(info).department>>, db)
            ELSE Returned(<<"No information found for employee", employee_name>>, db)

create_employee_profile(db, username, employee_name, role, department) ==
    IF db = MALFORMED THEN Raised("JSONDecodeError", db)
    ELSE LET old == IF db \in {MISSING, EMPTYFILE} THEN <<>> ELSE db.data
             new == DictSet(old, employee_name,
                            [username |-> username, role |-> role,
                             department |-> department])
         IN Returned(<<"Created profile for", username, employee_name, role, department>>,
                     Json(new))

\* the <<username, employee name>> pairs the model asks profiles to be created for
CreateArgs == {<<"admin", "Ann">>, <<"bob", "Bo">>}

\* the employee names the model looks up
LookupArgs == {"Ann"}

\* a tool call as the model issues it: the tool's name and its arguments in order
ToolCallsOf(name) ==
    IF name = RetrieveContext
    THEN {[name |-> name, args |-> <<q>>] : q \in Queries}
    ELSE IF name = EmployeeLookup
    THEN {[name |-> name, args |-> <<n>>] : n \in LookupArgs}
    ELSE {[name |-> name, args |-> <<p[1], p[2], r, d>>] :
            p \in CreateArgs, r \in Roles, d \in Departments}

RunTool(call, db) ==
    IF call.name = RetrieveContext THEN retrieve_context(db, call.args[1])
    ELSE IF call.name = EmployeeLookup THEN employee_lookup(db, call.args[1])
    ELSE create_employee_profile(db, call.args[1], call.args[2], call.args[3],
                                 call.args[4])

\* The tool step on the tool calls of an assistant message, in order: one
\* tool-result message per call, each naming the call it answers.  A tool that
\* raises yields an error result when the step handles tool errors, and aborts
\* the step otherwise.
RECURSIVE RunCalls(_, _, _, _)
RunCalls(calls, db, handle, out) ==
    IF calls = <<>> THEN [raised |-> FALSE, db |-> db, out |-> out]
    ELSE LET r == RunTool(Head(calls).call, db)
         IN IF r.raised /\ ~handle
            THEN [raised |-> TRUE, db |-> r.db, out |-> out]
            ELSE RunCalls(Tail(calls), r.db, handle,
                          Append(out, ToolMessage(IF r.raised
                                                  THEN <<"Error", r.content>>
                                                  ELSE r.content,
                                                  Head(calls).id)))

tool_node(msgs, db, handle) == RunCalls(Last(msgs).tool_calls, db, handle, <<>>)

\* the tool lists an agent is built with: none, the App default, the Controller default
ToolLists ==
    {{}, {RetrieveContext}, {RetrieveContext, EmployeeLookup, CreateEmployeeProfile}}

\* the replies the language model can give to a prompt at position pos of the
\* conversation: an assistant message with up to MaxCalls calls of its bound tools
Calls(ts) == UNION {ToolCallsOf(t) : t \in ts}

WithIds(cs, pos) == [j \in 1..Len(cs) |-> [call |-> cs[j], id |-> <<pos, j>>]]

Replies(ts, pos) ==
    {AIMessage(WithIds(cs, pos)) :
        cs \in UNION {[1..n -> Calls(ts)] : n \in 0..MaxCalls}}

\* --------------------------------------------------------- the step graph
agent_has_tools(ts) == Cardinality(ts) > 0

define_nodes(ts) ==
    {"model"} \cup (IF agent_has_tools(ts) THEN {"tools", "login", "onboarding"} ELSE {})

\* edges that still enter the graph at the model step
add_edges_entry_model(ts) ==
    {<<START, "model">>}
    \cup (IF agent_has_tools(ts)
          THEN {<<"tools", "model">>}
          ELSE {<<"onboarding", "model">>, <<"model", END>>})

\* the unconditional edges _add_edges adds
add_edges(ts) ==
    {<<START, "login">>}
    \cup (IF agent_has_tools(ts)
          THEN {<<"tools", "model">>}
          ELSE {<<"onboarding", "model">>, <<"model", END>>})

\* conditional edges whose onboarding path map ends the turn as the model's does
add_conditional_edges_onboarding_ends(ts) ==
    ("login" :> [path |-> "login_router",
                 path_map |-> ("login" :> "login" @@ "onboarding" :> "onboarding"
                               @@ "model" :> "model")])
    @@ (IF agent_has_tools(ts)
        THEN ("onboarding" :> [path |-> "agent_router",
                               path_map |-> ("tools" :> "tools" @@ "end" :> END)])
             @@ ("model" :> [path |-> "agent_router",
                             path_map |-> ("tools" :> "tools" @@ "end" :> END)])
        ELSE <<>>)

\* the conditional edges _add_edges adds: source :> the router and its path map
add_conditional_edges(ts) ==
    ("login" :> [path |-> "login_router",
                 path_map |-> ("login" :> "login" @@ "onboarding" :> "onboarding"
                               @@ "model" :> "model")])
    @@ (IF agent_has_tools(ts)
        THEN ("onboarding" :> [path |-> "agent_router",
                               path_map |-> ("tools" :> "tools" @@ "end" :> "model")])
             @@ ("model" :> [path |-> "agent_router",
                             path_map |-> ("tools" :> "tools" @@ "end" :> END)])
        ELSE <<>>)

Range(f) == {f[x] : x \in DOMAIN f}

\* every step an edge starts at, and every step an edge can lead to
all_sources(ts) == {e[1] : e \in add_edges(ts)} \cup DOMAIN add_conditional_edges(ts)

all_targets(ts) ==
    {e[2] : e \in add_edges(ts)}
    \cup UNION {Range(add_conditional_edges(ts)[n].path_map) :
                  n \in DOMAIN add_conditional_edges(ts)}

\* compiling the graph validates it: an edge starting or ending at a step that
\* was never added is an error
validate(ts) ==
    /\ START \in all_sources(ts)
    /\ all_sources(ts) \subseteq define_nodes(ts) \cup {START}
    /\ all_targets(ts) \subseteq define_nodes(ts) \cup {END}

\* ------------------------------------------------------------ the routers
\* a router that asks whether the user is new before asking whether they are logged in
login_router_new_first(logged_in, new_user) ==
    IF new_user THEN "onboarding"
    ELSE IF ~logged_in THEN "login"
    ELSE "model"

\* a router that sends every logged-in user to the model
login_router_skips_onboarding(logged_in, new_user) ==
    IF ~logged_in THEN "login" ELSE "model"

login_router(logged_in, new_user) ==
    IF ~logged_in THEN "login"
    ELSE IF new_user THEN "onboarding"
    ELSE "model"

\* a router that sends every assistant message to the tool step
agent_router_any_ai(msgs) ==
    IF Last(msgs).type = "ai" THEN "tools" ELSE "end"

agent_router(msgs) ==
    IF Last(msgs).type = "ai" /\ Last(msgs).tool_calls # <<>> THEN "tools" ELSE "end"

\* the step that runs after step n, given the state n left behind
next_node(ts, n, msgs, logged_in, new_user) ==
    IF n \in DOMAIN add_conditional_edges(ts)
    THEN LET b == add_conditional_edges(ts)[n]
             r == IF b.path = "login_router"
                  THEN login_router(logged_in, new_user)
                  ELSE agent_router(msgs)
         IN b.path_map[r]
    ELSE CHOOSE d \in define_nodes(ts) \cup {END} : <<n, d>> \in add_edges(ts)

\* whether the store holds a profile for the username the login step accepts
HasProfile(db, username) ==
    /\ db.kind = "json"
    /\ \E i \in 1..Len(db.data) : db.data[i][2].username = username

TurnStart(logged_in, new_user, db) ==
    [is_logged_in |-> logged_in, is_new_user |-> new_user,
     has_profile |-> HasProfile(db, "admin")]

\* no turn is running
Quiet == node \in {IDLE, END, RAISED}

\* -------------------------------------------------------------- the steps
Init ==
    /\ tools \in ToolLists
    /\ handle_tool_errors \in BOOLEAN
    /\ employee_db \in Files
    /\ compiled = FALSE
    /\ is_logged_in = FALSE
    /\ is_new_user = TRUE
    /\ user = None
    /\ messages = <<>>
    /\ node = IDLE
    /\ trace = <<>>
    /\ turn_start = TurnStart(FALSE, TRUE, employee_db)
    /\ console = <<>>
    /\ max_tokens = DefaultMaxTokens
    /\ prompt = <<>>
    /\ AppIdle
    /\ RagIdle

\* invoke / stream: compile the graph on first use, append the user's input and
\* enter the graph
Invoke ==
    /\ Quiet
    /\ Len(messages) + 2 <= MaxMsgs
    /\ trace' = <<>>
    /\ console' = <<>>
    /\ turn_start' = TurnStart(is_logged_in, is_new_user, employee_db)
    /\ prompt' = <<>>
    /\ IF ~compiled /\ ~validate(tools)
       THEN /\ node' = RAISED
            /\ UNCHANGED <<compiled, messages>>
       ELSE /\ compiled' = TRUE
            /\ messages' = add_messages(messages, <<HumanMessage(<<"input">>)>>)
            /\ node' = next_node(tools, START, messages', is_logged_in, is_new_user)
    /\ UNCHANGED <<app_vars, rag_vars>>
    /\ UNCHANGED <<tools, handle_tool_errors, is_logged_in, is_new_user, user, employee_db,
                   max_tokens>>

\* a clear_memory that also starts the session over
clear_memory_resets_session ==
    /\ Quiet
    /\ messages' = <<>>
    /\ compiled' = FALSE
    /\ prompt' = <<>>
    /\ is_logged_in' = FALSE
    /\ is_new_user' = TRUE
    /\ UNCHANGED <<app_vars, rag_vars>>
    /\ UNCHANGED <<tools, handle_tool_errors, user, node, trace, turn_start, console,
                   employee_db, max_tokens>>

\* a clear_memory that drops the compiled workflow and keeps the MemorySaver
clear_memory_keeps_memory ==
    /\ Quiet
    /\ compiled' = FALSE
    /\ prompt' = <<>>
    /\ UNCHANGED <<app_vars, rag_vars>>
    /\ UNCHANGED <<tools, handle_tool_errors, is_logged_in, is_new_user, user, node,
                   trace, turn_start, console, employee_db, max_tokens, messages>>

\* a new MemorySaver, and the workflow is compiled against it on the next use
clear_memory ==
    /\ Quiet
    /\ messages' = <<>>
    /\ compiled' = FALSE
    /\ prompt' = <<>>
    /\ UNCHANGED <<app_vars, rag_vars>>
    /\ UNCHANGED <<tools, handle_tool_errors, is_logged_in, is_new_user, user, node,
                   trace, turn_start, console, employee_db, max_tokens>>

\* a lookup of the login's username among the keys of the store
FirstMatch_by_key(d, username) ==
    IF \E i \in 1..Len(d) : d[i][1] = username
    THEN LET i == CHOOSE i \in 1..Len(d) : d[i][1] = username
         IN Some(User(username, d[i][1], d[i][2].role, d[i][2].department))
    ELSE None

\* the first record of the store whose username is the login's, if any
FirstMatch(d, username) ==
    IF \E i \in 1..Len(d) : d[i][2].username = username
    THEN LET i == CHOOSE i \in 1..Len(d) :
                     /\ d[i][2].username = username
                     /\ \A j \in 1..(i - 1) : d[j][2].username # username
         IN Some(User(username, d[i][1], d[i][2].role, d[i][2].department))
    ELSE None

\* a credential check that forgets the password
Accepted_any_password(username, password) == username = "admin"

Accepted(username, password) == username = "admin" /\ password = "password"

\* the login step on the credentials typed at its two prompts
login_step(username, password) ==
    /\ node = "login"
    /\ trace' = Append(trace, "login")
    /\ console' = <<username, password>>
    /\ IF Accepted(username, password)
       THEN /\ is_logged_in' = TRUE
            /\ IF employee_db = MISSING
               THEN /\ node' = RAISED
                    /\ UNCHANGED <<user, is_new_user>>
               ELSE LET d == IF employee_db.kind = "json" THEN employee_db.data ELSE <<>>
                        found == FirstMatch(d, username)
                    IN /\ user' = IF found # None THEN found ELSE user
                       /\ is_new_user' = IF found # None THEN FALSE ELSE is_new_user
                       /\ node' = next_node(tools, "login", messages, is_logged_in',
                                            is_new_user')
       ELSE /\ node' = next_node(tools, "login", messages, is_logged_in, is_new_user)
            /\ UNCHANGED <<is_logged_in, is_new_user, user>>
    /\ UNCHANGED <<app_vars, rag_vars>>
    /\ UNCHANGED <<tools, handle_tool_errors, compiled, messages, turn_start, employee_db,
                   max_tokens, prompt>>

\* the login step, rejected at most MaxLoginTries times in a turn
login(username, password) ==
    /\ ~Accepted(username, password) => Len(trace) < MaxLoginTries
    /\ login_step(username, password)

Login == \E username \in Usernames, password \in Passwords : login(username, password)

WelcomeRequest(name, username, role, department) ==
    HumanMessage(<<"Onboarding complete!", name, username, role, department>>)

\* an onboarding step that returns the welcome request ahead of the reply
onboarding_messages_welcome_first(response, welcome_request) ==
    <<welcome_request, response>>

\* return {"messages": [response, welcome_request]}
onboarding_messages(response, welcome_request) == <<response, welcome_request>>

\* the language model either replies or the call to it raises
onboarding(name, role, department, raises, response) ==
    /\ node = "onboarding"
    /\ trace' = Append(trace, "onboarding")
    /\ console' = <<name, role, department>>
    /\ user' = Some(User("admin", name, role, department))
    /\ IF raises
       THEN /\ node' = RAISED
            /\ UNCHANGED <<is_new_user, messages>>
       ELSE /\ is_new_user' = FALSE
            /\ messages' =
                   add_messages(messages,
                                onboarding_messages(response,
                                    WelcomeRequest(name, "admin", role, department)))
            /\ node' = next_node(tools, "onboarding", messages', is_logged_in,
                                 is_new_user')
    /\ UNCHANGED <<app_vars, rag_vars>>
    /\ UNCHANGED <<tools, handle_tool_errors, compiled, is_logged_in, turn_start,
                   employee_db, max_tokens, prompt>>

Onboarding ==
    /\ node = "onboarding"
    /\ Len(messages) + 2 <= MaxMsgs
    /\ \E name \in Names, role \in Roles, department \in Departments, raises \in BOOLEAN :
          \E response \in Replies(tools, Len(messages) + 1) :
              onboarding(name, role, department, raises, response)

\* return {"messages": [response]}
call_model_update(response) == <<response>>

\* the stored messages are trimmed into the prompt; the reply alone is returned
call_model(raises, response) ==
    /\ node = "model"
    /\ trace' = Append(trace, "model")
    /\ console' = <<>>
    /\ prompt' = prompt_template(trimmer(messages, max_tokens))
    /\ IF raises
       THEN /\ node' = RAISED
            /\ UNCHANGED messages
       ELSE /\ messages' = add_messages(messages,
                                        call_model_update(response))
            /\ node' = next_node(tools, "model", messages', is_logged_in, is_new_user)
    /\ UNCHANGED <<app_vars, rag_vars>>
    /\ UNCHANGED <<tools, handle_tool_errors, compiled, is_logged_in, is_new_user, user,
                   turn_start, employee_db, max_tokens>>

CallModel ==
    /\ node = "model"
    /\ \E raises \in BOOLEAN :
          \E response \in Replies(tools, Len(messages) + 1) :
              /\ Len(messages) + 1 + Len(response.tool_calls) <= MaxMsgs
              /\ call_model(raises, response)

Tools ==
    /\ node = "tools"
    /\ trace' = Append(trace, "tools")
    /\ console' = <<>>
    /\ LET r == tool_node(messages, employee_db, handle_tool_errors)
       IN /\ employee_db' = r.db
          /\ IF r.raised
             THEN /\ node' = RAISED
                  /\ UNCHANGED messages
             ELSE /\ messages' = add_messages(messages, r.out)
                  /\ node' = next_node(tools, "tools", messages', is_logged_in, is_new_user)
    /\ UNCHANGED <<app_vars, rag_vars>>
    /\ UNCHANGED <<tools, handle_tool_errors, compiled, is_logged_in, is_new_user, user,
                   turn_start, max_tokens, prompt>>

Next ==
    \/ Invoke
    \/ clear_memory
    \/ Login
    \/ Onboarding
    \/ CallModel
    \/ Tools

Spec == Init /\ [][Next]_vars

\* ------------------------------------------- the model step on any history
\* the messages a stored conversation is made of, one or two blocks long
HistoryMessages ==
    {HumanMessage(<<"input">>), HumanMessage(<<"input", "more">>), AIMessage(<<>>),
     AIMessage(WithIds(<<[name |-> RetrieveContext, args |-> <<"q">>]>>, 1)),
     ToolMessage(<<"context", "q">>, <<1, 1>>)}

Histories == UNION {[1..n -> HistoryMessages] : n \in 0..MaxHist}

OneBlockTokens == MessageTokens(HumanMessage(<<"input">>))

\* budgets that cut between messages, that a window fills exactly, and the default
Budgets ==
    {0, DefaultMaxTokens}
        \cup UNION {{k * OneBlockTokens - 1, k * OneBlockTokens} : k \in 1..MaxBudgetMsgs}

\* a WorkflowManager(agent, max_tokens) about to run a model step on a
\* conversation of a logged-in, onboarded user
InitTrim ==
    /\ messages \in Histories
    /\ max_tokens \in Budgets
    /\ tools = {RetrieveContext}
    /\ handle_tool_errors = TRUE
    /\ employee_db = Json(<<>>)
    /\ compiled = TRUE
    /\ is_logged_in = TRUE
    /\ is_new_user = FALSE
    /\ user = Some(User("admin", "Ann", "dev", "eng"))
    /\ node = "model"
    /\ trace = <<>>
    /\ turn_start = TurnStart(TRUE, FALSE, employee_db)
    /\ console = <<>>
    /\ prompt = <<>>
    /\ AppIdle
    /\ RagIdle

ModelStep == \E raises \in BOOLEAN : call_model(raises, AIMessage(<<>>))

SpecTrim == InitTrim /\ [][ModelStep]_vars

\* ------------------------------------------------ one turn of the graph
\* the steps the compiled graph runs in one invoke before it gives up: the
\* config names only the thread, so the library's limit applies
recursion_limit == 25

\* the graph may still run a step of this turn
WithinLimit == Len(trace) < recursion_limit

\* the first invoke on a new WorkflowManager
TurnInvoke == node = IDLE /\ Invoke

\* the login step accepts the credentials
LoginAccepted ==
    /\ WithinLimit
    /\ \E username \in Usernames, password \in Passwords :
          Accepted(username, password) /\ login_step(username, password)

\* the login step rejects the credentials and the router returns to it
LoginRejected ==
    /\ WithinLimit
    /\ \E username \in Usernames, password \in Passwords :
          ~Accepted(username, password) /\ login_step(username, password)

TurnOnboarding == WithinLimit /\ Onboarding

\* the model replies without tool calls
FinalReply ==
    /\ WithinLimit
    /\ node = "model"
    /\ Len(messages) + 1 <= MaxMsgs
    /\ call_model(FALSE, AIMessage(<<>>))

\* the model asks for tools, or the call to it raises
ToolReply ==
    /\ WithinLimit
    /\ CallModel
    /\ node' # END

TurnTools == WithinLimit /\ Tools

\* the limit is reached with a step still to run: GraphRecursionError
RecursionLimit ==
    /\ ~Quiet
    /\ ~WithinLimit
    /\ node' = RAISED
    /\ UNCHANGED <<tools, handle_tool_errors, compiled, is_logged_in, is_new_user, user,
                   messages, trace, turn_start, console, employee_db, max_tokens, prompt>>
    /\ UNCHANGED <<app_vars, rag_vars>>

NextTurn ==
    \/ TurnInvoke
    \/ LoginAccepted
    \/ LoginRejected
    \/ TurnOnboarding
    \/ FinalReply
    \/ ToolReply
    \/ TurnTools
    \/ RecursionLimit

SpecTurn == Init /\ [][NextTurn]_vars

\* the graph runs the step that is due; the credentials are accepted if they
\* are asked for again and again, and the model replies without tool calls if
\* it is called again and again
SpecTurnFair ==
    /\ SpecTurn
    /\ WF_vars(NextTurn)
    /\ SF_vars(LoginAccepted)
    /\ SF_vars(FinalReply)

\* ------------------------------------------------ the App and the Controller
\* a WorkflowManager nothing has been done with
WfIdle ==
    /\ tools = {RetrieveContext}
    /\ handle_tool_errors = TRUE
    /\ employee_db = Json(<<>>)
    /\ compiled = FALSE
    /\ is_logged_in = FALSE
    /\ is_new_user = TRUE
    /\ user = None
    /\ messages = <<>>
    /\ node = IDLE
    /\ trace = <<>>
    /\ turn_start = TurnStart(FALSE, TRUE, employee_db)
    /\ console = <<>>
    /\ max_tokens = DefaultMaxTokens
    /\ prompt = <<>>

AllTools == {RetrieveContext, EmployeeLookup, CreateEmployeeProfile}

\* the tools argument an App or a Controller is built with
ToolArguments == {None, Some({}), Some({RetrieveContext}), Some({EmployeeLookup}),
                  Some(AllTools)}

\* what is typed at the "User: " prompt
Inputs == {"quit", "Exit", "QUIT", "hello", "quit now"}

GREETING == "Send a friendly greeting to start the conversation."

\* str.lower() on the inputs
Lower(s) ==
    CASE s = "Exit" -> "exit"
      [] s = "QUIT" -> "quit"
      [] OTHER -> s

\* a quit test that compares the input as typed
do_quit_as_typed(u) == u \in {"exit", "quit"}

do_quit(u) == Lower(u) \in {"exit", "quit"}

\* a loop that does not look at the flag
loop_test_always(running) == TRUE

\* while self.is_running
loop_test(running) == running

\* the default tool list of the front end
default_tools(o) == IF o = "Controller" THEN AllTools ELSE {RetrieveContext}

\* the tools property: self._tools if self._tools else the defaults
tools_property(o, supplied) ==
    IF supplied # None /\ The(supplied) # {} THEN The(supplied) ELSE default_tools(o)

\* the agent property: the Agent is built on first use, with the tools property
agent_property(o, supplied, current) ==
    IF current = None THEN Some(tools_property(o, supplied)) ELSE current

InitApp ==
    /\ WfIdle
    /\ RagIdle
    /\ owner \in {"App", "Controller"}
    /\ app_tools \in ToolArguments
    /\ agent = None
    /\ is_running = FALSE
    /\ run_thread = "new"
    /\ worker = "new"
    /\ user_input = ""
    /\ streamed = <<>>
    /\ reads = 0
    /\ stopped = FALSE
    /\ quit_at = None

\* a read of the agent property
ReadAgent ==
    /\ agent' = agent_property(owner, app_tools, agent)
    /\ UNCHANGED <<owner, app_tools, is_running, run_thread, worker, user_input, streamed,
                   reads, stopped, quit_at>>
    /\ UNCHANGED <<wf_vars, rag_vars>>

\* Controller.stream / Controller.invoke
ControllerStream ==
    /\ owner = "Controller"
    /\ Len(streamed) < MaxReads
    /\ \E u \in Inputs :
          /\ user_input' = u
          /\ streamed' = Append(streamed, u)
    /\ agent' = agent_property(owner, app_tools, agent)
    /\ UNCHANGED <<owner, app_tools, is_running, run_thread, worker, reads, stopped,
                   quit_at>>
    /\ UNCHANGED <<wf_vars, rag_vars>>

\* App.run
Run ==
    /\ owner = "App"
    /\ run_thread = "new"
    /\ is_running' = TRUE
    /\ run_thread' = "alive"
    /\ worker' = "greeting"
    /\ stopped' = FALSE
    /\ UNCHANGED <<owner, app_tools, agent, user_input, streamed, reads, quit_at>>
    /\ UNCHANGED <<wf_vars, rag_vars>>

\* App.quit called from outside the worker thread
Quit ==
    /\ owner = "App"
    /\ is_running' = FALSE
    /\ stopped' = TRUE
    /\ quit_at' = IF run_thread = "alive" /\ quit_at = None
                  THEN Some([reads |-> reads, worker |-> worker])
                  ELSE quit_at
    /\ UNCHANGED <<owner, app_tools, agent, run_thread, worker, user_input, streamed,
                   reads>>
    /\ UNCHANGED <<wf_vars, rag_vars>>

\* _run_app: the greeting is streamed before the loop; the stream may raise
Greeting ==
    /\ worker = "greeting"
    /\ agent' = agent_property(owner, app_tools, agent)
    /\ streamed' = Append(streamed, GREETING)
    /\ \E raises \in BOOLEAN :
          IF raises
          THEN worker' = "crashed" /\ run_thread' = "done"
          ELSE worker' = "test" /\ UNCHANGED run_thread
    /\ UNCHANGED <<owner, app_tools, is_running, user_input, reads, stopped, quit_at>>
    /\ UNCHANGED <<wf_vars, rag_vars>>

\* _run_app: the test of the while loop
LoopTest ==
    /\ worker = "test"
    /\ IF loop_test(is_running)
       THEN worker' = "read" /\ UNCHANGED run_thread
       ELSE worker' = "exited" /\ run_thread' = "done"
    /\ UNCHANGED <<owner, app_tools, agent, is_running, user_input, streamed, reads,
                   stopped, quit_at>>
    /\ UNCHANGED <<wf_vars, rag_vars>>

\* _run_app: get_user_input returns what was typed
ReadInput ==
    /\ worker = "read"
    /\ reads < MaxReads \/ (~is_running /\ reads < MaxReads + 1)
    /\ \E u \in Inputs : user_input' = u
    /\ reads' = reads + 1
    /\ worker' = "handle"
    /\ UNCHANGED <<owner, app_tools, agent, is_running, run_thread, streamed, stopped,
                   quit_at>>
    /\ UNCHANGED <<wf_vars, rag_vars>>

\* _handle_request: quit on a quit word, else start streaming the response
HandleRequest ==
    /\ worker = "handle"
    /\ IF do_quit(user_input)
       THEN /\ is_running' = FALSE
            /\ stopped' = TRUE
            /\ worker' = "test"
            /\ UNCHANGED streamed
       ELSE /\ streamed' = Append(streamed, user_input)
            /\ worker' = "stream"
            /\ UNCHANGED <<is_running, stopped>>
    /\ UNCHANGED <<owner, app_tools, agent, run_thread, user_input, reads, quit_at>>
    /\ UNCHANGED <<wf_vars, rag_vars>>

\* _stream_response returns, or an exception of the workflow ends the thread
StreamEnd ==
    /\ worker = "stream"
    /\ \E raises \in BOOLEAN :
          IF raises
          THEN worker' = "crashed" /\ run_thread' = "done"
          ELSE worker' = "test" /\ UNCHANGED run_thread
    /\ UNCHANGED <<owner, app_tools, agent, is_running, user_input, streamed, reads,
                   stopped, quit_at>>
    /\ UNCHANGED <<wf_vars, rag_vars>>

\* the steps of the worker thread
Worker == Greeting \/ LoopTest \/ ReadInput \/ HandleRequest \/ StreamEnd

NextApp ==
    \/ ReadAgent
    \/ ControllerStream
    \/ Run
    \/ Quit
    \/ Greeting
    \/ LoopTest
    \/ ReadInput
    \/ HandleRequest
    \/ StreamEnd

SpecApp == InitApp /\ [][NextApp]_vars

\* the worker thread is scheduled, and what it waits for at the prompt is typed
SpecAppFair == SpecApp /\ WF_vars(Worker)

\* =================================================================
\* Properties
\* =================================================================
ToolEnabled == agent_has_tools(tools)

\* the step that ran last in the current turn
Ran(n) == trace # <<>> /\ Last(trace) = n

\* this transition is a run of step n
Runs(n) == trace' = Append(trace, n)

PendingToolCalls(m) == m.type = "ai" /\ Len(m.tool_calls) > 0

\* C1: the step after a login step is decided by the session flags alone: login
\* while not logged in, else onboarding for a new user, else model; nothing
\* else follows login.
C1_LoginRouterByFlags ==
    (Ran("login") /\ node # RAISED) =>
        /\ node \in {"login", "onboarding", "model"}
        /\ (~is_logged_in => node = "login")
        /\ (is_logged_in /\ is_new_user => node = "onboarding")
        /\ (is_logged_in /\ ~is_new_user => node = "model")

C1_Witness ==
    /\ trace = <<"login", "login">>
    /\ node = "onboarding"
    /\ is_logged_in /\ is_new_user

\* C2: in a tool-enabled workflow a model step is followed by the tool step
\* exactly when the last message of the conversation carries a tool call, and
\* by the end of the turn otherwise; a tool step is followed by a model step.
C2_ModelAndToolsRouting ==
    [][(ToolEnabled /\ node' # RAISED) =>
          /\ (Runs("model") =>
                 /\ (PendingToolCalls(Last(messages')) <=> node' = "tools")
                 /\ (~PendingToolCalls(Last(messages')) <=> node' = END))
          /\ (Runs("tools") => node' = "model")]_vars

C2_Witness ==
    /\ ToolEnabled
    /\ trace = <<"login", "model", "tools">>
    /\ node = "model"

\* the assistant message an onboarding step appended: the one before the
\* welcome request it appended last
OnboardingResponse == messages[Len(messages) - 1]

\* C3: in a tool-enabled workflow, when the assistant message produced by
\* onboarding carries tool calls the step after onboarding is the tool step.
C3_OnboardingCallsRunTools ==
    (ToolEnabled /\ Ran("onboarding") /\ node # RAISED /\ ~Quiet) =>
        (PendingToolCalls(OnboardingResponse) <=> node = "tools")

\* every tool call of every assistant message of msgs is answered by exactly
\* one later tool-result message
AllAnswered(msgs) ==
    \A i \in 1..Len(msgs) :
        \A j \in 1..Len(msgs[i].tool_calls) :
            Cardinality({k \in (i + 1)..Len(msgs) :
                            /\ msgs[k].type = "tool"
                            /\ msgs[k].tool_call_id = msgs[i].tool_calls[j].id}) = 1

\* C4: whenever a model step is about to run, no tool call of the stored
\* conversation is unanswered.
C4_NoModelStepOnUnansweredCalls ==
    node = "model" => AllAnswered(messages)

\* C5: in a tool-enabled workflow a model step runs only in a session that is
\* logged in and no longer new.
C5_ModelOnlyAfterLoginAndOnboarding ==
    (ToolEnabled /\ (node = "model" \/ \E i \in 1..Len(trace) : trace[i] = "model")) =>
        (is_logged_in /\ ~is_new_user)

C5_Witness ==
    /\ ToolEnabled
    /\ trace = <<"login", "onboarding">>
    /\ node = "model"
    /\ turn_start.is_logged_in = FALSE

\* the number of login steps the turn began with
LeadingLogins(t) ==
    CHOOSE k \in 0..Len(t) :
        /\ \A j \in 1..k : t[j] = "login"
        /\ (k = Len(t) \/ t[k + 1] # "login")

\* t is a prefix of model, (tools, model)*
ModelToolsAlternation(t) ==
    \A i \in 1..Len(t) : t[i] = IF i % 2 = 1 THEN "model" ELSE "tools"

\* the step that may follow a prefix t of model, (tools, model)*, which itself
\* follows a step after which the model runs
AfterAlternation(t) ==
    IF t = <<>> THEN {"model", RAISED}
    ELSE IF Last(t) = "model" THEN {"tools", END, RAISED}
    ELSE {"model", RAISED}

StartedLoggedOutAndNew ==
    /\ ToolEnabled
    /\ node # IDLE
    /\ ~turn_start.is_logged_in
    /\ turn_start.is_new_user
    /\ ~turn_start.has_profile

StartedLoggedInAndKnown ==
    /\ ToolEnabled
    /\ node # IDLE
    /\ turn_start.is_logged_in
    /\ ~turn_start.is_new_user

\* C7: a turn that starts logged in and not new visits model, then (tools,
\* model) pairs, then ends: it has no login step and no onboarding step.
C7_KnownUserTurnSkipsLogin ==
    StartedLoggedInAndKnown =>
        /\ node \notin {"login", "onboarding"}
        /\ ModelToolsAlternation(trace)
        /\ node \in AfterAlternation(trace)

\* C8: the first step of every turn is login.
C8_TurnsEnterAtLogin ==
    /\ (trace # <<>> => trace[1] = "login")
    /\ (trace = <<>> /\ node \notin {IDLE, RAISED} => node = "login")

C8_Witness ==
    /\ trace = <<>>
    /\ node = "login"
    /\ Len(messages) = 3
    /\ is_logged_in

\* C9: without tools the workflow compiles and every turn runs the model step
\* and ends: no turn fails on an edge to a step that was never defined.
C9_ToolDisabledTurnRuns ==
    ~ToolEnabled =>
        /\ node \in {IDLE, "model", END}
        /\ (node = END => trace = <<"model">>)

C11_AcceptedLoginLoadsProfile ==
    [][(Runs("login") /\ console' = <<"admin", "password">>) =>
          /\ is_logged_in'
          /\ (HasProfile(employee_db, "admin") =>
                 /\ \E i \in 1..Len(employee_db.data) :
                        LET name == employee_db.data[i][1]
                            record == employee_db.data[i][2]
                        IN /\ record.username = "admin"
                           /\ user' = Some(User("admin", name, record.role,
                                                record.department))
                 /\ ~is_new_user'
                 /\ node' = "model")
          /\ (employee_db # MISSING /\ ~HasProfile(employee_db, "admin") =>
                 /\ is_new_user' = is_new_user
                 /\ user' = user
                 /\ (is_new_user => node' = "onboarding"))]_vars

\* an accepted login found the profile of a user who was new
C11_Witness ==
    /\ Ran("login")
    /\ console = <<"admin", "password">>
    /\ turn_start.is_new_user
    /\ HasProfile(employee_db, "admin")
    /\ user # None
    /\ ~is_new_user
    /\ node = "model"

\* C12: an onboarding step that completes sets is_new_user to false, makes
\* the collected name, role and department the current user, and appends
\* exactly two messages: first the model's reply, then the human welcome
\* request built from the collected fields.
C12_OnboardingAppendsReplyThenWelcome ==
    [][(Runs("onboarding") /\ node' # RAISED) =>
          /\ ~is_new_user'
          /\ user' = Some(User("admin", console'[1], console'[2], console'[3]))
          /\ Len(messages') = Len(messages) + 2
          /\ SubSeq(messages', 1, Len(messages)) = messages
          /\ messages'[Len(messages) + 1].type = "ai"
          /\ messages'[Len(messages) + 2] =
                 WelcomeRequest(console'[1], "admin", console'[2], console'[3])]_vars

C12_Witness ==
    /\ Ran("onboarding")
    /\ node # RAISED
    /\ Len(messages) = 3
    /\ messages[2].type = "ai"
    /\ messages[3].type = "human"
    /\ user = Some(User("admin", "Bo", "dev", "eng"))
    /\ ~is_new_user

\* the reply of this turn's onboarding step asked for the profile of the
\* current user to be created
OnboardingRequestedProfile ==
    /\ user # None
    /\ \E i \in 1..(Len(messages) - 1) :
          /\ messages[i].type = "ai"
          /\ messages[i + 1] = WelcomeRequest(The(user).name, "admin", The(user).role,
                                              The(user).department)
          /\ \E j \in 1..Len(messages[i].tool_calls) :
                 messages[i].tool_calls[j].call =
                     [name |-> CreateEmployeeProfile,
                      args |-> <<"admin", The(user).name, The(user).role,
                                 The(user).department>>]

\* C13: when a turn in which a new user was onboarded has ended, and the
\* onboarding reply asked for create_employee_profile with the collected
\* fields, the store holds that profile, so that a later login finds it.
C13_OnboardedProfilePersisted ==
    (node = END /\ "onboarding" \in Range(trace) /\ OnboardingRequestedProfile) =>
        /\ HasProfile(employee_db, "admin")
        /\ DictGet(employee_db.data, The(user).name) =
               Some([username |-> "admin", role |-> The(user).role,
                     department |-> The(user).department])

IsPrefix(s, t) == Len(s) <= Len(t) /\ SubSeq(t, 1, Len(s)) = s

\* this transition is a clear_memory that dropped a compiled workflow
Clears == compiled /\ ~compiled'

\* C14: without clear_memory the stored conversation only grows at its end:
\* every step leaves the messages stored before it in place, a login step
\* appends nothing, and a model step, whatever its trimmed prompt left out,
\* appends its reply and nothing else.
C14_StoredConversationAppendOnly ==
    [][/\ (~Clears => IsPrefix(messages, messages'))
       /\ (Runs("login") => messages' = messages)
       /\ (Runs("model") /\ node' # RAISED =>
              /\ messages' = Append(messages, Last(messages'))
              /\ Last(messages').type = "ai")]_vars

\* a model step whose prompt left stored messages out, and the store kept them
C14_Witness ==
    /\ Ran("model")
    /\ node = END
    /\ Len(messages) = MaxMsgs
    /\ Len(prompt) - 1 < Len(messages) - 1

\* C15: clear_memory leaves the stored conversation empty; the turn that
\* follows stores its own input first, and the prompt of every model step
\* holds, after the system message, only messages that are stored.
C15_ClearMemoryEmptiesConversation ==
    [][/\ (Clears => messages' = <<>>)
       /\ (messages = <<>> /\ messages' # <<>> =>
              messages' = <<HumanMessage(<<"input">>)>>)
       /\ (Runs("model") =>
              \A i \in 2..Len(prompt') :
                  \E j \in 1..Len(messages) : messages[j] = prompt'[i])]_vars

\* the model step of a later turn of a session saw that turn's input alone:
\* the memory was cleared since the earlier turns
C15_Witness ==
    /\ turn_start.is_logged_in
    /\ Ran("model")
    /\ node = END
    /\ Len(messages) = 2
    /\ prompt = <<SystemMessage(<<"system_prompt">>), HumanMessage(<<"input">>)>>

\* the stored messages the model step that ran last was given
ModelSaw == IF node = RAISED THEN messages ELSE SubSeq(messages, 1, Len(messages) - 1)

\* the trimmed window of the prompt that step sent
Window == Tail(prompt)

\* C16: whatever the stored history and the budget, the prompt of a model
\* step has the system message as its first entry, and only there.
C16_PromptStartsWithSystemMessage ==
    Ran("model") =>
        /\ prompt # <<>>
        /\ prompt[1] = SystemMessage(<<"system_prompt">>)
        /\ \A i \in 2..Len(prompt) : prompt[i].type # "system"

\* the budget left no room for any stored message, the system message is sent
C16_Witness ==
    /\ Ran("model")
    /\ Len(ModelSaw) = MaxHist
    /\ prompt = <<SystemMessage(<<"system_prompt">>)>>

\* C17: the trimmed window of a model step's prompt is empty or begins with a
\* human message.
C17_WindowStartsOnHuman ==
    Ran("model") => (Window = <<>> \/ Window[1].type = "human")

\* the whole history fit the budget and began with a tool result, which the
\* window dropped
C17_Witness ==
    /\ Ran("model")
    /\ count_tokens_approximately(ModelSaw) <= max_tokens
    /\ ModelSaw # <<>>
    /\ ModelSaw[1].type = "tool"
    /\ Window # <<>>
    /\ Window[1].type = "human"

\* C18: the trimmed window is a suffix of whole stored messages whose token
\* total is within max_tokens, and no longer suffix that begins with a human
\* message is within max_tokens.
C18_WindowIsLongestSuffixInBudget ==
    Ran("model") =>
        /\ Len(Window) <= Len(ModelSaw)
        /\ Window = Suffix(ModelSaw, Len(Window))
        /\ count_tokens_approximately(Window) <= max_tokens
        /\ \A k \in (Len(Window) + 1)..Len(ModelSaw) :
               \/ ModelSaw[Len(ModelSaw) - k + 1].type # "human"
               \/ count_tokens_approximately(Suffix(ModelSaw, k)) > max_tokens

\* a window that fills the budget to the token and leaves older messages out
C18_Witness ==
    /\ Ran("model")
    /\ Window # <<>>
    /\ Len(Window) < Len(ModelSaw)
    /\ count_tokens_approximately(Window) = max_tokens
    /\ max_tokens # DefaultMaxTokens

\* the places of the store where a record is kept under a name
EntriesFor(db, name) == {i \in 1..Len(db.data) : db.data[i][1] = name}

\* the store holds exactly one record under the name, with these values
HoldsOnly(db, username, name, role, department) ==
    /\ db.kind = "json"
    /\ Cardinality(EntriesFor(db, name)) = 1
    /\ \A i \in EntriesFor(db, name) :
           db.data[i][2] = [username |-> username, role |-> role,
                            department |-> department]

\* create_employee_profile run twice on the file db with the same arguments
\* leaves the store as the first run left it, with exactly one record under
\* the name holding the given values; a further run with the same name and
\* another username replaces that record and adds none
IdempotentOn(db) ==
    \A u \in Usernames, n \in Names, r \in Roles, d \in Departments :
        LET once == create_employee_profile(db, u, n, r, d)
            twice == create_employee_profile(once.db, u, n, r, d)
        IN /\ ~once.raised /\ ~twice.raised
           /\ twice.db = once.db
           /\ HoldsOnly(once.db, u, n, r, d)
           /\ \A u2 \in Usernames :
                  LET over == create_employee_profile(once.db, u2, n, r, d)
                  IN /\ HoldsOnly(over.db, u2, n, r, d)
                     /\ Len(over.db.data) = Len(once.db.data)
                     /\ \A i \in 1..Len(once.db.data) :
                            once.db.data[i][1] # n => over.db.data[i] = once.db.data[i]

\* C19: whatever the store file holds, create_employee_profile is idempotent:
\* a second run with the same arguments changes nothing, the store then has
\* exactly one record under the name with the given values, and a run with
\* the same name and other values overwrites that record.
C19_CreateProfileIdempotent == IdempotentOn(employee_db)

\* C20: on every store that is a JSON object, employee_lookup of a name that
\* is not a key returns the "No information found" text for that name, of a
\* name that is a key returns the record stored under it, and in both cases
\* leaves the store as it was.
C20_LookupFallbackOnlyForMissingName ==
    employee_db.kind = "json" =>
        \A n \in Names :
            LET r == employee_lookup(employee_db, n)
            IN /\ ~r.raised
               /\ r.db = employee_db
               /\ (EntriesFor(employee_db, n) = {} =>
                      r.content = <<"No information found for employee", n>>)
               /\ \A i \in EntriesFor(employee_db, n) :
                      r.content = <<n, "is a", employee_db.data[i][2].username,
                                    employee_db.data[i][2].role,
                                    employee_db.data[i][2].department>>

\* the tool step looked up a name the store has no record for
C20_Witness ==
    /\ Ran("tools")
    /\ employee_db.kind = "json"
    /\ employee_db.data # <<>>
    /\ Last(messages).type = "tool"
    /\ Last(messages).content = <<"No information found for employee", "Ann">>

\* the tool step is about to run exactly this one call
OnlyCall(name) ==
    /\ node = "tools"
    /\ Len(Last(messages).tool_calls) = 1
    /\ Last(messages).tool_calls[1].call.name = name

\* C21: when the store file holds malformed JSON, a create_employee_profile
\* call run by the tool step does not fail: it answers with the confirmation
\* and the store then holds the new record and nothing else.
C21_MalformedStoreWrittenAsEmpty ==
    [][(OnlyCall(CreateEmployeeProfile) /\ employee_db = MALFORMED
            /\ Runs("tools")) =>
          LET args == Last(messages).tool_calls[1].call.args
          IN /\ node' # RAISED
             /\ Last(messages').type = "tool"
             /\ Last(messages').content[1] = "Created profile for"
             /\ employee_db' = Json(<<<<args[2], [username |-> args[1],
                                                  role |-> args[3],
                                                  department |-> args[4]]>>>>)]_vars

\* C22: when the store file holds malformed JSON, both read paths fail: an
\* employee_lookup call run by the tool step gives no answer (the step is
\* aborted or reports the error), and a login step that accepts the
\* credentials is aborted by the error.
C22_MalformedStoreReadsRaise ==
    [][employee_db = MALFORMED =>
          /\ (OnlyCall(EmployeeLookup) /\ Runs("tools") =>
                 \/ node' = RAISED
                 \/ Last(messages').content[1] = "Error")
          /\ (Runs("login") /\ console' = <<"admin", "password">> =>
                 node' = RAISED)]_vars

\* once set, is_logged_in stays true and is_new_user stays false
FlagsMonotonic == (is_logged_in => is_logged_in') /\ (~is_new_user => ~is_new_user')

\* C28 as stated: the session flags are monotonic over every transition, and
\* onboarding runs at most once on a WorkflowManager: whenever the onboarding
\* step is about to run, no onboarding step has set a user before.
C28_FlagsMonotonicOnboardingOnce ==
    [][FlagsMonotonic]_vars /\ [](node = "onboarding" => user = None)

\* C28 as amended: the session flags are monotonic over every transition
\* (rejected logins, onboarding, model and tools steps, clear_memory), the
\* onboarding step runs only while is_new_user is true, and an onboarding
\* step that completes sets it to false, so onboarding completes at most once.
C28_FlagsMonotonicOnboardingCompletesOnce ==
    [][/\ FlagsMonotonic
       /\ (Runs("onboarding") => is_new_user /\ (node' # RAISED => ~is_new_user'))]_vars

\* a login was rejected in a session that was logged in and onboarded, and
\* the flags stayed
C28_Witness ==
    /\ Ran("login")
    /\ console = <<"admin", "wrong">>
    /\ turn_start.is_logged_in /\ ~turn_start.is_new_user
    /\ is_logged_in /\ ~is_new_user

\* C29: whenever is_new_user is false a user is loaded, and whenever the
\* model step of a tool-enabled workflow is about to run or has run a user
\* is loaded.
C29_KnownUserIsLoaded ==
    /\ (~is_new_user => user # None)
    /\ (ToolEnabled /\ (node = "model" \/ "model" \in Range(trace)) => user # None)

\* the model step runs for a user whom the login step loaded from the store
C29_Witness ==
    /\ ToolEnabled
    /\ node = "model"
    /\ trace = <<"login">>
    /\ ~is_new_user
    /\ user = Some(User("admin", "Bo", "dev", "eng"))

\* C30: is_logged_in becomes true only in a login step that completes; a
\* login step aborted by an error of the store file leaves is_logged_in
\* false, is_new_user true and no user loaded.
C30_LoginAllOrNothing ==
    [][/\ (~is_logged_in /\ is_logged_in' => Runs("login") /\ node' # RAISED)
       /\ (Runs("login") /\ ~is_logged_in /\ node' = RAISED =>
              ~is_logged_in' /\ is_new_user' /\ user' = None)]_vars

\* ------------------------------------------------ C23
\* the inputs that spell exit or quit in some letter case
QuitWords == {"quit", "Exit", "QUIT"}

\* the worker leaves _handle_request
Handled == worker = "handle" /\ worker' # "handle"

QuitWordStopsLoop ==
    /\ Handled /\ user_input \in QuitWords =>
          ~is_running' /\ streamed' = streamed /\ worker' = "test"
    /\ user_input \in QuitWords =>
          reads' = reads /\ user_input' = user_input /\ worker' \notin {"read", "stream"}

OtherInputStreamedLoopContinues ==
    /\ Handled /\ user_input \notin QuitWords =>
          /\ streamed' = Append(streamed, user_input)
          /\ is_running' = is_running
          /\ worker' = "stream"
    /\ worker = "test" /\ worker' # "test" /\ is_running => worker' = "read"

FlagFollowsRunAndQuit ==
    /\ run_thread = "new" => ~is_running
    /\ run_thread # "new" /\ ~stopped => is_running
    /\ stopped => ~is_running

\* the inputs the worker may still read once quit() came from outside
ReadsAllowedAfter(q) == q.reads + (IF q.worker = "read" THEN 1 ELSE 0)

AtMostIterationInProgress ==
    quit_at # None => reads <= ReadsAllowedAfter(The(quit_at))

NoIterationAfterFlagSeenFalse ==
    /\ worker = "test" /\ ~is_running /\ worker' # worker => worker' = "exited"
    /\ worker = "exited" => worker' = "exited" /\ reads' = reads /\ streamed' = streamed

ClaimedTools == IF app_tools # None THEN The(app_tools) ELSE default_tools(owner)

\* C27: the agent of a Controller or App built with an explicit tool list has
\* exactly that list, the defaults are used only when no list was supplied,
\* and built with the empty list the agent has no tools, so the workflow has
\* only the model node
C27_ExplicitToolListIsUsed ==
    agent # None =>
        /\ The(agent) = ClaimedTools
        /\ app_tools = Some({}) => define_nodes(The(agent)) = {"model"}

\* ------------------------------------------------ the knowledge base
\* RAGManager(chunk_size=1000, chunk_overlap=200)
chunk_size == 1000
chunk_overlap == 200
\* rag_manager.search(query, k=2)
SearchK == 2
\* doc.page_content[:500]
ExcerptChars == 500

\* the files a knowledge directory may hold, and the extra files configured
DirFiles == {"kb/guide.md", "kb/empty.md", "kb/notes.txt"}
ExtraFiles == <<"README.md", "CHANGES.md">>

\* len(read_text()) of each file
FileChars(path) ==
    CASE path = "kb/guide.md" -> 1500
      [] path = "kb/empty.md" -> 0
      [] path = "CHANGES.md" -> 1000
      [] OTHER -> 300

IsMarkdown(path) == path \in {"kb/guide.md", "kb/empty.md", "README.md", "CHANGES.md"}

\* source.split("/")[-1] if "/" in source else source
Filename(path) ==
    CASE path = "kb/guide.md" -> "guide.md"
      [] path = "kb/empty.md" -> "empty.md"
      [] path = "kb/notes.txt" -> "notes.txt"
      [] OTHER -> path

Document(path) == [source |-> path, chars |-> FileChars(path)]

\* the orders in which a set can be listed
Listings(S) ==
    {s \in [1..Cardinality(S) -> S] : \A i, j \in DOMAIN s : i # j => s[i] # s[j]}

\* rag_path.glob("**/*.md") when the directory exists, else nothing; the order
\* of a glob is the file system's
load_markdown_documents(src) ==
    IF src.dir = None
    THEN {<<>>}
    ELSE {[i \in DOMAIN l |-> Document(l[i])] :
             l \in Listings({f \in The(src.dir) : IsMarkdown(f)})}

RECURSIVE load_extra_files(_, _)
load_extra_files(paths, existing) ==
    IF paths = <<>> THEN <<>>
    ELSE (IF Head(paths) \in existing THEN <<Document(Head(paths))>> ELSE <<>>)
         \o load_extra_files(Tail(paths), existing)

\* the values the documents property may take on its first read
load_documents(src) ==
    {md \o load_extra_files(src.extra_files, src.existing) :
        md \in load_markdown_documents(src)}

\* the chunks the text splitter makes of one document
ChunkCount(chars) ==
    IF chars = 0 THEN 0
    ELSE IF chars <= chunk_size THEN 1
    ELSE 1 + ((chars - chunk_size) + (chunk_size - chunk_overlap) - 1)
                 \div (chunk_size - chunk_overlap)

ChunkChars(chars, i) ==
    LET start == (i - 1) * (chunk_size - chunk_overlap)
    IN IF chars - start < chunk_size THEN chars - start ELSE chunk_size

split_document(doc) ==
    [i \in 1..ChunkCount(doc.chars) |->
        [source |-> doc.source,
         start_index |-> (i - 1) * (chunk_size - chunk_overlap),
         chars |-> ChunkChars(doc.chars, i)]]

RECURSIVE text_splitter_split_documents(_)
text_splitter_split_documents(docs) ==
    IF docs = <<>> THEN <<>>
    ELSE split_document(Head(docs)) \o text_splitter_split_documents(Tail(docs))

\* InMemoryVectorStore.add_documents: one entry with a fresh id per chunk, the
\* ids returned
add_documents(store, chunks, call) ==
    [store |-> store \o [i \in DOMAIN chunks |-> [id |-> <<call, i>>, chunk |-> chunks[i]]],
     ids |-> [i \in DOMAIN chunks |-> <<call, i>>]]

\* what the retrieval tool is asked
RagQueries == {"setup", "deploy"}

\* an index that is rebuilt whenever the id list is empty
needs_indexing_when_falsy(ids) == ids = None \/ The(ids) = <<>>

\* if self._document_ids is None
needs_indexing(ids) == ids = None

\* similarity_search(query, k): the k nearest chunks, as the embedding ranks
\* them; nothing when the store is empty
similarity_search(store, k) ==
    LET n == IF Len(store) < k THEN Len(store) ELSE k
    IN {[i \in 1..n |-> store[r[i]].chunk] :
           r \in {s \in [1..n -> DOMAIN store] :
                     \A i, j \in 1..n : i # j => s[i] # s[j]}}

NoInformation == "No relevant information found in the knowledge base."

\* one "[From filename]" part of the tool's answer
context_part(chunk) ==
    [from |-> Filename(chunk.source),
     chars |-> IF chunk.chars > ExcerptChars THEN ExcerptChars ELSE chunk.chars,
     ellipsis |-> chunk.chars > ExcerptChars]

\* an answer formatted without the test for an empty result
retrieve_context_output_unchecked(docs) ==
    [text |-> "context", parts |-> [i \in DOMAIN docs |-> context_part(docs[i])]]

\* the text retrieve_context returns for what the search found
retrieve_context_output(docs) ==
    IF docs = <<>>
    THEN [text |-> NoInformation, parts |-> <<>>]
    ELSE [text |-> "context", parts |-> [i \in DOMAIN docs |-> context_part(docs[i])]]

\* the directories and extra files a RAGManager may be pointed at
Sources ==
    {[dir |-> dir, extra_files |-> ef, existing |-> ex] :
        dir \in {None} \cup {Some(S) : S \in SUBSET DirFiles},
        ef \in {<<>>, ExtraFiles},
        ex \in SUBSET Range(ExtraFiles)}

InitRag ==
    /\ WfIdle
    /\ AppIdle
    /\ sources \in {s \in Sources : s.existing \subseteq Range(s.extra_files)}
    /\ documents = None
    /\ split_documents = None
    /\ document_ids = None
    /\ vector_store = <<>>
    /\ add_calls = 0
    /\ retrieved = <<>>

\* the documents property: loaded on the first read
documents_read(docs) ==
    /\ IF documents = None
       THEN docs \in load_documents(sources)
       ELSE docs = The(documents)
    /\ documents' = Some(docs)

\* the split_documents property: split on the first read
split_documents_read(chunks) ==
    /\ \E docs \in load_documents(sources) \cup documents :
          /\ IF split_documents = None
             THEN documents_read(docs) /\ chunks = text_splitter_split_documents(docs)
             ELSE UNCHANGED documents /\ chunks = The(split_documents)
    /\ split_documents' = Some(chunks)

\* the index_documents property: the split documents are added on the first read
index_documents_read ==
    IF needs_indexing(document_ids)
    THEN /\ add_calls < MaxAdds
         /\ \E chunks \in {text_splitter_split_documents(docs) :
                              docs \in load_documents(sources) \cup documents}
                         \cup split_documents :
               LET added == add_documents(vector_store, chunks, add_calls + 1)
               IN /\ split_documents_read(chunks)
                  /\ vector_store' = added.store
                  /\ document_ids' = Some(added.ids)
         /\ add_calls' = add_calls + 1
    ELSE UNCHANGED <<documents, split_documents, document_ids, vector_store, add_calls>>

ReadDocuments ==
    /\ \E docs \in load_documents(sources) \cup documents : documents_read(docs)
    /\ UNCHANGED <<sources, split_documents, document_ids, vector_store, add_calls,
                   retrieved>>
    /\ UNCHANGED <<wf_vars, app_vars>>

ReadSplitDocuments ==
    /\ \E chunks \in {text_splitter_split_documents(docs) :
                         docs \in load_documents(sources) \cup documents}
                    \cup split_documents :
          split_documents_read(chunks)
    /\ UNCHANGED <<sources, document_ids, vector_store, add_calls, retrieved>>
    /\ UNCHANGED <<wf_vars, app_vars>>

IndexDocuments ==
    /\ index_documents_read
    /\ UNCHANGED <<sources, retrieved>>
    /\ UNCHANGED <<wf_vars, app_vars>>

\* RAGManager.search: index if that was not done, then search the store
Search ==
    /\ Len(retrieved) < MaxSearches
    /\ index_documents_read
    /\ \E query \in RagQueries, docs \in similarity_search(vector_store', SearchK) :
          retrieved' = Append(retrieved, [query |-> query, docs |-> docs, output |-> None])
    /\ UNCHANGED sources
    /\ UNCHANGED <<wf_vars, app_vars>>

\* the retrieve_context tool: search with k=2 and format what was found
RetrieveContextTool ==
    /\ Len(retrieved) < MaxSearches
    /\ index_documents_read
    /\ \E query \in RagQueries, docs \in similarity_search(vector_store', SearchK) :
          retrieved' = Append(retrieved, [query |-> query, docs |-> docs,
                                          output |-> Some(retrieve_context_output(docs))])
    /\ UNCHANGED sources
    /\ UNCHANGED <<wf_vars, app_vars>>

NextRag ==
    \/ ReadDocuments
    \/ ReadSplitDocuments
    \/ IndexDocuments
    \/ Search
    \/ RetrieveContextTool

SpecRag == InitRag /\ [][NextRag]_vars

\* ------------------------------------------------ C25
\* the store holds each chunk of the split documents once, in their order
FilledOnce ==
    /\ split_documents # None
    /\ document_ids # None
    /\ Len(The(document_ids)) = Len(The(split_documents))
    /\ [i \in DOMAIN vector_store |-> vector_store[i].chunk] = The(split_documents)

\* C25: nothing is added to the vector store before the first search or the
\* first read of index_documents; that first use adds the split documents;
\* and whatever searches and index_documents reads follow, add_documents has
\* run once and the store holds the split documents once, also when there are
\* none
C25_IndexedLazilyOnce ==
    /\ add_calls <= 1
    /\ add_calls = 0 => vector_store = <<>> /\ document_ids = None /\ retrieved = <<>>
    /\ add_calls = 1 => FilledOnce
    /\ retrieved # <<>> => add_calls = 1

\* two searches on a knowledge base whose only markdown file is empty: indexed
\* once, with nothing in the store
C25_Witness ==
    /\ sources.dir = Some({"kb/empty.md"})
    /\ documents # None /\ The(documents) # <<>>
    /\ Len(retrieved) = 2
    /\ add_calls = 1
    /\ document_ids = Some(<<>>)
    /\ vector_store = <<>>

\* ------------------------------------------------ C26
\* no markdown file in the directory, or no directory, and no extra file
NoKnowledge ==
    /\ sources.dir # None => \A f \in The(sources.dir) : ~IsMarkdown(f)
    /\ \A i \in DOMAIN sources.extra_files : sources.extra_files[i] \notin sources.existing

\* C26: when the knowledge directory is missing or holds no markdown file and
\* no extra file exists, the documents property is the empty list and every
\* call of the retrieval tool returns the no-relevant-information text
C26_EmptyKnowledgeBaseAnswersNoInformation ==
    NoKnowledge =>
        /\ documents # None => The(documents) = <<>>
        /\ \A i \in DOMAIN retrieved :
              /\ retrieved[i].docs = <<>>
              /\ retrieved[i].output # None =>
                    The(retrieved[i].output) = [text |-> NoInformation, parts |-> <<>>]

\* the tool was called with both queries on a directory that holds only a text
\* file, with an extra file configured that does not exist
C26_Witness ==
    /\ sources.dir = Some({"kb/notes.txt"})
    /\ sources.extra_files = ExtraFiles
    /\ sources.existing = {}
    /\ documents = Some(<<>>)
    /\ Len(retrieved) = 2
    /\ retrieved[1].query # retrieved[2].query
    /\ \A i \in 1..2 : retrieved[i].output # None

\* ------------------------------------------------ C31
\* the names a store holds records under
NamesOf(db) == {db.data[i][1] : i \in 1..Len(db.data)}

\* the store after holds every record of the store before that is under
\* another name than n, unchanged, and its names are the old ones plus n
WritesOnlyOwnRecord(before, after, n) ==
    /\ after.kind = "json"
    /\ NamesOf(after) = NamesOf(before) \cup {n}
    /\ Len(after.data) = Cardinality(NamesOf(after))
    /\ \A i \in 1..Len(before.data) :
           before.data[i][1] # n =>
               DictGet(after.data, before.data[i][1]) = Some(before.data[i][2])

\* C31: on every store that holds a JSON object and for every name N, a
\* create_employee_profile call for N run by the tool step leaves every record
\* stored under another name present and unchanged, and the names stored are
\* the old ones plus N
C31_WriteChangesOnlyOwnRecord ==
    [][(OnlyCall(CreateEmployeeProfile) /\ employee_db.kind = "json" /\ Runs("tools")) =>
          /\ node' # RAISED
          /\ WritesOnlyOwnRecord(employee_db, employee_db',
                                 Last(messages).tool_calls[1].call.args[2])]_vars

\* the tool step has written a profile into a store that held a record under
\* another name, and both are there
C31_Witness ==
    /\ Ran("tools")
    /\ Last(messages).type = "tool"
    /\ Last(messages).content[1] = "Created profile for"
    /\ employee_db.kind = "json"
    /\ Cardinality(NamesOf(employee_db)) = 2
    /\ turn_start.has_profile

\* ------------------------------------------------ C32
\* a step leads back to a node this turn has already run
Revisits == ~Quiet' /\ trace' # trace /\ \E i \in DOMAIN trace' : trace'[i] = node'

OnlyLoginAndToolCycles ==
    Revisits => \/ node = "login" /\ node' = "login"
                \/ node = "model" /\ node' = "tools"
                \/ node = "tools" /\ node' = "model"

\* the turn was stopped at the login step with no credentials accepted: no
\* step of the turn raised, the graph gave up
StoppedAtLogin ==
    /\ node = RAISED
    /\ ~is_logged_in
    /\ Len(trace) = recursion_limit
    /\ \A i \in DOMAIN trace : trace[i] = "login"

\* C32: the only cycles of a turn are login -> login and model -> tools ->
\* model, and when the credentials are eventually accepted and the model
\* eventually replies without tool calls, every turn that has entered the
\* graph eventually reaches end, turns that the exception of a step aborts
\* set aside: nothing but those two assumptions bounds the login cycle
C32_EveryTurnReachesEnd ==
    /\ [][OnlyLoginAndToolCycles]_vars
    /\ ~Quiet ~> (node = END \/ (node = RAISED /\ ~StoppedAtLogin))

====
